---- MODULE Spec2Model ----
(***************************************************************************)
(* LinkedList<TValue> of Cpp/Containers/LinkedList.h: a doubly-linked list *)
(* of heap nodes.  The heap is a finite set of node addresses; a list      *)
(* state is the list object's fields (head, tail, count) together with the *)
(* fields of the nodes (next, prev, data) and the set of addresses whose   *)
(* storage is currently allocated.                                         *)
(***************************************************************************)
EXTENDS Integers, Sequences, FiniteSets

\* ------------------------------------------------------------------ bounds
MaxNodes == 3
MaxVal == 2
MaxPushes == 4

\* size_type is an unsigned type: the int count is converted modulo the
\* width of size_type.  The width is scaled down to fit TLC's integers;
\* every count the bounded heap can hold is far below it.
SizeModulus == 1073741824

NULL == 0
Nodes == 1..MaxNodes
Values == 1..MaxVal
NoValue == 0

VARIABLES
    head,       \* Node* head
    tail,       \* Node* tail
    count,      \* int count
    next,       \* Node::next of every address
    prev,       \* Node::prev of every address
    data,       \* Node::data of every address
    alloc,      \* addresses obtained from new and not yet deleted
    ub,         \* TRUE once an operation has had undefined behaviour
    alive,      \* FALSE once ~LinkedList has run
    lastOp,     \* the last public call: name, argument, result, depth
    prevOp,     \* the public call before it
    snap1,      \* contents and size() before lastOp
    snap2,      \* contents and size() before prevOp
    pushes,     \* pushes performed since construction (until a clear)
    pops,       \* pops that returned a value since construction
    cleared,    \* TRUE once clear() has been called
    onlyPB,     \* TRUE while the only mutations so far are push_back calls
    pushLog,    \* while onlyPB: the values pushed, in push order
    iter,       \* the address held by an iterator (nullptr: the sentinel)
    itRemoved,  \* TRUE once the node `iter` was obtained for has been removed
    opAt,       \* the node a protected helper was last called with
    mirror,     \* a second list, in a heap of its own
    mirrorOp    \* the last public call made on the second list

histVars == <<prevOp, snap1, snap2>>
ghostVars == <<pushes, pops, cleared, onlyPB, pushLog>>
iterVars == <<iter, itRemoved>>
mirrorVars == <<mirror, mirrorOp>>
\* What the public calls on the one list leave alone.
auxVars == <<iter, itRemoved, opAt, mirror, mirrorOp>>

vars == <<head, tail, count, next, prev, data, alloc, ub, alive,
          lastOp, prevOp, snap1, snap2,
          pushes, pops, cleared, onlyPB, pushLog,
          iter, itRemoved, opAt, mirror, mirrorOp>>

\* The list object and the heap it lives in, as one value.
Self ==
    [head |-> head, tail |-> tail, count |-> count,
     next |-> next, prev |-> prev, data |-> data, alloc |-> alloc, ub |-> ub]

\* ------------------------------------------------------------ construction
\* LinkedList(): head(nullptr), tail(nullptr), count(0); nothing allocated.
EmptyList ==
    [head |-> NULL, tail |-> NULL, count |-> 0,
     next |-> [n \in Nodes |-> NULL], prev |-> [n \in Nodes |-> NULL],
     data |-> [n \in Nodes |-> NoValue], alloc |-> {}, ub |-> FALSE]

\* new Node(val) at address n: next(nullptr), prev(nullptr), data(val).
NodeCtor(s, n, val) ==
    [s EXCEPT !.alloc = @ \cup {n}, !.next[n] = NULL, !.prev[n] = NULL,
              !.data[n] = val]

\* ------------------------------------------------------------- observers
size(s) == s.count % SizeModulus

empty(s) == s.head = NULL

\* ---------------------------------------------------------------- delete
\* Storage of address p handed back to the allocator: the object's fields
\* are no longer part of the program's state.
Release(s, p) ==
    [s EXCEPT !.next[p] = NULL, !.prev[p] = NULL, !.data[p] = NoValue]

\* `delete p`: nothing for nullptr; otherwise Node::~Node runs on *p
\* (delete next; next = nullptr) and then the storage is released.  The
\* result carries the largest number of ~Node calls active at one time.
\* Deleting an address that is not a live node is undefined behaviour.
RECURSIVE DeleteNode(_, _)
DeleteNode(s, p) ==
    IF p = NULL THEN [st |-> s, depth |-> 0]
    ELSE IF p \notin s.alloc THEN [st |-> [s EXCEPT !.ub = TRUE], depth |-> 0]
    ELSE LET dying == [s EXCEPT !.alloc = @ \ {p}]
             inner == DeleteNode(dying, dying.next[p])
             after == [inner.st EXCEPT !.next[p] = NULL]
         IN  [st |-> Release(after, p), depth |-> 1 + inner.depth]

\* ------------------------------------------------------- protected helpers
\* addAfter with `newNode->prev = node` left out.
addAfter_NoPrev(s, node, val, newNode) ==
    LET s0 == NodeCtor(s, newNode, val)
    IN  IF node # NULL
        THEN LET s2 == [s0 EXCEPT !.next[newNode] = s0.next[node]]
                 s3 == [s2 EXCEPT !.next[node] = newNode]
                 s4 == IF s3.next[newNode] # NULL
                       THEN [s3 EXCEPT !.prev[s3.next[newNode]] = newNode]
                       ELSE [s3 EXCEPT !.tail = newNode]
             IN  [s4 EXCEPT !.count = @ + 1]
        ELSE [s0 EXCEPT !.head = newNode, !.tail = newNode, !.count = @ + 1]

\* addAfter with `tail = newNode` left out of the node-was-the-tail branch.
addAfter_NoTailUpdate(s, node, val, newNode) ==
    LET s0 == NodeCtor(s, newNode, val)
    IN  IF node # NULL
        THEN LET s1 == [s0 EXCEPT !.prev[newNode] = node]
                 s2 == [s1 EXCEPT !.next[newNode] = s1.next[node]]
                 s3 == [s2 EXCEPT !.next[node] = newNode]
                 s4 == IF s3.next[newNode] # NULL
                       THEN [s3 EXCEPT !.prev[s3.next[newNode]] = newNode]
                       ELSE s3
             IN  [s4 EXCEPT !.count = @ + 1]
        ELSE [s0 EXCEPT !.head = newNode, !.tail = newNode, !.count = @ + 1]

\* addAfter with `newNode->next->prev = newNode` left out.
addAfter_NoNextBackLink(s, node, val, newNode) ==
    LET s0 == NodeCtor(s, newNode, val)
    IN  IF node # NULL
        THEN LET s1 == [s0 EXCEPT !.prev[newNode] = node]
                 s2 == [s1 EXCEPT !.next[newNode] = s1.next[node]]
                 s3 == [s2 EXCEPT !.next[node] = newNode]
                 s4 == IF s3.next[newNode] # NULL
                       THEN s3
                       ELSE [s3 EXCEPT !.tail = newNode]
             IN  [s4 EXCEPT !.count = @ + 1]
        ELSE [s0 EXCEPT !.head = newNode, !.tail = newNode, !.count = @ + 1]

\* addAfter(node, val), with newNode the address operator new returns.
addAfter(s, node, val, newNode) ==
    LET s0 == NodeCtor(s, newNode, val)
    IN  IF node # NULL
        THEN LET s1 == [s0 EXCEPT !.prev[newNode] = node]
                 s2 == [s1 EXCEPT !.next[newNode] = s1.next[node]]
                 s3 == [s2 EXCEPT !.next[node] = newNode]
                 s4 == IF s3.next[newNode] # NULL
                       THEN [s3 EXCEPT !.prev[s3.next[newNode]] = newNode]
                       ELSE [s3 EXCEPT !.tail = newNode]
             IN  [s4 EXCEPT !.count = @ + 1]
        ELSE [s0 EXCEPT !.head = newNode, !.tail = newNode, !.count = @ + 1]

\* addBefore with `head = newNode` left out of the node-was-the-head branch.
addBefore_NoHeadUpdate(s, node, val, newNode) ==
    LET s0 == NodeCtor(s, newNode, val)
    IN  IF node # NULL
        THEN LET s1 == [s0 EXCEPT !.next[newNode] = node]
                 s2 == [s1 EXCEPT !.prev[newNode] = s1.prev[node]]
                 s3 == [s2 EXCEPT !.prev[node] = newNode]
                 s4 == IF s3.prev[newNode] # NULL
                       THEN [s3 EXCEPT !.next[s3.prev[newNode]] = newNode]
                       ELSE s3
             IN  [s4 EXCEPT !.count = @ + 1]
        ELSE [s0 EXCEPT !.head = newNode, !.tail = newNode, !.count = @ + 1]

\* addBefore with `node->prev = newNode` left out.
addBefore_NoBackLink(s, node, val, newNode) ==
    LET s0 == NodeCtor(s, newNode, val)
    IN  IF node # NULL
        THEN LET s1 == [s0 EXCEPT !.next[newNode] = node]
                 s3 == [s1 EXCEPT !.prev[newNode] = s1.prev[node]]
                 s4 == IF s3.prev[newNode] # NULL
                       THEN [s3 EXCEPT !.next[s3.prev[newNode]] = newNode]
                       ELSE [s3 EXCEPT !.head = newNode]
             IN  [s4 EXCEPT !.count = @ + 1]
        ELSE [s0 EXCEPT !.head = newNode, !.tail = newNode, !.count = @ + 1]

\* addBefore(node, val), with newNode the address operator new returns.
addBefore(s, node, val, newNode) ==
    LET s0 == NodeCtor(s, newNode, val)
    IN  IF node # NULL
        THEN LET s1 == [s0 EXCEPT !.next[newNode] = node]
                 s2 == [s1 EXCEPT !.prev[newNode] = s1.prev[node]]
                 s3 == [s2 EXCEPT !.prev[node] = newNode]
                 s4 == IF s3.prev[newNode] # NULL
                       THEN [s3 EXCEPT !.next[s3.prev[newNode]] = newNode]
                       ELSE [s3 EXCEPT !.head = newNode]
             IN  [s4 EXCEPT !.count = @ + 1]
        ELSE [s0 EXCEPT !.head = newNode, !.tail = newNode, !.count = @ + 1]

\* The outcome of a call that threw std::runtime_error: nothing was touched.
Thrown(s) == [st |-> s, ret |-> NoValue, err |-> TRUE, depth |-> 0]

\* removeNode with `count--` left out.
removeNode_NoDecrement(s, node) ==
    IF s.head = NULL THEN Thrown(s)
    ELSE IF node \notin s.alloc
    THEN [st |-> [s EXCEPT !.ub = TRUE], ret |-> NoValue, err |-> FALSE, depth |-> 0]
    ELSE LET val == s.data[node]
             s1 == IF s.next[node] # NULL
                   THEN [s EXCEPT !.prev[s.next[node]] = s.prev[node]]
                   ELSE [s EXCEPT !.tail = s.prev[node]]
             s2 == IF s1.prev[node] # NULL
                   THEN [s1 EXCEPT !.next[s1.prev[node]] = s1.next[node]]
                   ELSE [s1 EXCEPT !.head = s1.next[node]]
             s3 == [s2 EXCEPT !.next[node] = NULL, !.prev[node] = NULL]
             d  == DeleteNode(s3, node)
         IN  [st |-> d.st, ret |-> val, err |-> FALSE, depth |-> d.depth]

\* removeNode with `count--` moved in front of the empty-list check.
removeNode_DecrementFirst(s, node) ==
    IF s.head = NULL
    THEN [st |-> [s EXCEPT !.count = @ - 1], ret |-> NoValue, err |-> TRUE,
          depth |-> 0]
    ELSE IF node \notin s.alloc
    THEN [st |-> [s EXCEPT !.ub = TRUE], ret |-> NoValue, err |-> FALSE, depth |-> 0]
    ELSE LET val == s.data[node]
             s1 == IF s.next[node] # NULL
                   THEN [s EXCEPT !.prev[s.next[node]] = s.prev[node]]
                   ELSE [s EXCEPT !.tail = s.prev[node]]
             s2 == IF s1.prev[node] # NULL
                   THEN [s1 EXCEPT !.next[s1.prev[node]] = s1.next[node]]
                   ELSE [s1 EXCEPT !.head = s1.next[node]]
             s3 == [s2 EXCEPT !.next[node] = NULL, !.prev[node] = NULL]
             d  == DeleteNode(s3, node)
         IN  [st |-> [d.st EXCEPT !.count = @ - 1], ret |-> val, err |-> FALSE,
              depth |-> d.depth]

\* removeNode with `tail = node->prev` left out of the removing-the-tail branch.
removeNode_NoTailUpdate(s, node) ==
    IF s.head = NULL THEN Thrown(s)
    ELSE IF node \notin s.alloc
    THEN [st |-> [s EXCEPT !.ub = TRUE], ret |-> NoValue, err |-> FALSE, depth |-> 0]
    ELSE LET val == s.data[node]
             s1 == IF s.next[node] # NULL
                   THEN [s EXCEPT !.prev[s.next[node]] = s.prev[node]]
                   ELSE s
             s2 == IF s1.prev[node] # NULL
                   THEN [s1 EXCEPT !.next[s1.prev[node]] = s1.next[node]]
                   ELSE [s1 EXCEPT !.head = s1.next[node]]
             s3 == [s2 EXCEPT !.next[node] = NULL, !.prev[node] = NULL]
             d  == DeleteNode(s3, node)
         IN  [st |-> [d.st EXCEPT !.count = @ - 1], ret |-> val, err |-> FALSE,
              depth |-> d.depth]

\* removeNode with `delete node` left out.
removeNode_NoDelete(s, node) ==
    IF s.head = NULL THEN Thrown(s)
    ELSE IF node \notin s.alloc
    THEN [st |-> [s EXCEPT !.ub = TRUE], ret |-> NoValue, err |-> FALSE, depth |-> 0]
    ELSE LET val == s.data[node]
             s1 == IF s.next[node] # NULL
                   THEN [s EXCEPT !.prev[s.next[node]] = s.prev[node]]
                   ELSE [s EXCEPT !.tail = s.prev[node]]
             s2 == IF s1.prev[node] # NULL
                   THEN [s1 EXCEPT !.next[s1.prev[node]] = s1.next[node]]
                   ELSE [s1 EXCEPT !.head = s1.next[node]]
             s3 == [s2 EXCEPT !.next[node] = NULL, !.prev[node] = NULL]
         IN  [st |-> [s3 EXCEPT !.count = @ - 1], ret |-> val, err |-> FALSE,
              depth |-> 0]

\* removeNode with `head = node->next` left out of the removing-the-head branch.
removeNode_NoHeadUpdate(s, node) ==
    IF s.head = NULL THEN Thrown(s)
    ELSE IF node \notin s.alloc
    THEN [st |-> [s EXCEPT !.ub = TRUE], ret |-> NoValue, err |-> FALSE, depth |-> 0]
    ELSE LET val == s.data[node]
             s1 == IF s.next[node] # NULL
                   THEN [s EXCEPT !.prev[s.next[node]] = s.prev[node]]
                   ELSE [s EXCEPT !.tail = s.prev[node]]
             s2 == IF s1.prev[node] # NULL
                   THEN [s1 EXCEPT !.next[s1.prev[node]] = s1.next[node]]
                   ELSE s1
             s3 == [s2 EXCEPT !.next[node] = NULL, !.prev[node] = NULL]
             d  == DeleteNode(s3, node)
         IN  [st |-> [d.st EXCEPT !.count = @ - 1], ret |-> val, err |-> FALSE,
              depth |-> d.depth]

\* removeNode with `node->next = nullptr` left out before `delete node`.
removeNode_KeepsNext(s, node) ==
    IF s.head = NULL THEN Thrown(s)
    ELSE IF node \notin s.alloc
    THEN [st |-> [s EXCEPT !.ub = TRUE], ret |-> NoValue, err |-> FALSE, depth |-> 0]
    ELSE LET val == s.data[node]
             s1 == IF s.next[node] # NULL
                   THEN [s EXCEPT !.prev[s.next[node]] = s.prev[node]]
                   ELSE [s EXCEPT !.tail = s.prev[node]]
             s2 == IF s1.prev[node] # NULL
                   THEN [s1 EXCEPT !.next[s1.prev[node]] = s1.next[node]]
                   ELSE [s1 EXCEPT !.head = s1.next[node]]
             s3 == [s2 EXCEPT !.prev[node] = NULL]
             d  == DeleteNode(s3, node)
         IN  [st |-> [d.st EXCEPT !.count = @ - 1], ret |-> val, err |-> FALSE,
              depth |-> d.depth]

\* removeNode with `node->prev->next = node->next` left out.
removeNode_NoForwardLink(s, node) ==
    IF s.head = NULL THEN Thrown(s)
    ELSE IF node \notin s.alloc
    THEN [st |-> [s EXCEPT !.ub = TRUE], ret |-> NoValue, err |-> FALSE, depth |-> 0]
    ELSE LET val == s.data[node]
             s1 == IF s.next[node] # NULL
                   THEN [s EXCEPT !.prev[s.next[node]] = s.prev[node]]
                   ELSE [s EXCEPT !.tail = s.prev[node]]
             s2 == IF s1.prev[node] # NULL
                   THEN s1
                   ELSE [s1 EXCEPT !.head = s1.next[node]]
             s3 == [s2 EXCEPT !.next[node] = NULL, !.prev[node] = NULL]
             d  == DeleteNode(s3, node)
         IN  [st |-> [d.st EXCEPT !.count = @ - 1], ret |-> val, err |-> FALSE,
              depth |-> d.depth]

\* removeNode(node): throws on an empty list, otherwise unlinks node,
\* deletes it and returns the value it held.  Dereferencing an address that
\* is not a live node is undefined behaviour.
removeNode(s, node) ==
    IF s.head = NULL THEN Thrown(s)
    ELSE IF node \notin s.alloc
    THEN [st |-> [s EXCEPT !.ub = TRUE], ret |-> NoValue, err |-> FALSE, depth |-> 0]
    ELSE LET val == s.data[node]
             s1 == IF s.next[node] # NULL
                   THEN [s EXCEPT !.prev[s.next[node]] = s.prev[node]]
                   ELSE [s EXCEPT !.tail = s.prev[node]]
             s2 == IF s1.prev[node] # NULL
                   THEN [s1 EXCEPT !.next[s1.prev[node]] = s1.next[node]]
                   ELSE [s1 EXCEPT !.head = s1.next[node]]
             s3 == [s2 EXCEPT !.next[node] = NULL, !.prev[node] = NULL]
             d  == DeleteNode(s3, node)
         IN  [st |-> [d.st EXCEPT !.count = @ - 1], ret |-> val, err |-> FALSE,
              depth |-> d.depth]

\* ---------------------------------------------------------- public calls
\* push_front adding at the back.
push_front_AsBack(s, val, newNode) == addAfter(s, s.tail, val, newNode)

push_front(s, val, newNode) == addBefore(s, s.head, val, newNode)

\* push_back adding at the front.
push_back_AsFront(s, val, newNode) == addBefore(s, s.head, val, newNode)

push_back(s, val, newNode) == addAfter(s, s.tail, val, newNode)

pop_front(s) == removeNode(s, s.head)

\* pop_back removing the head instead of the tail.
pop_back_FromHead(s) == removeNode(s, s.head)

pop_back(s) == removeNode(s, s.tail)

\* front returning the tail's value.
front_ReturnsTail(s) ==
    IF s.head = NULL THEN Thrown(s)
    ELSE [st |-> s, ret |-> s.data[s.tail], err |-> FALSE, depth |-> 0]

front(s) ==
    IF s.head = NULL THEN Thrown(s)
    ELSE [st |-> s, ret |-> s.data[s.head], err |-> FALSE, depth |-> 0]

back(s) ==
    IF s.tail = NULL THEN Thrown(s)
    ELSE [st |-> s, ret |-> s.data[s.tail], err |-> FALSE, depth |-> 0]

\* clear with `tail = nullptr` left out.
clear_KeepsTail(s) ==
    LET d == DeleteNode(s, s.head)
    IN  [st |-> [d.st EXCEPT !.head = NULL, !.count = 0],
         ret |-> NoValue, err |-> FALSE, depth |-> d.depth]

\* clear(): delete head; head = nullptr; tail = nullptr; count = 0.
clear(s) ==
    LET d == DeleteNode(s, s.head)
    IN  [st |-> [d.st EXCEPT !.head = NULL, !.tail = NULL, !.count = 0],
         ret |-> NoValue, err |-> FALSE, depth |-> d.depth]

\* ~LinkedList(): clear().
Destructor(s) == clear(s)

\* -------------------------------------------------------------- iteration
\* The nodes met by following a link field from n until nullptr, as the
\* loop `while (n != nullptr) { ...; n = n->next; }` does.  The walk is cut
\* after fuel steps, so that a chain with a cycle gives a walk longer than
\* any list the heap can hold instead of no result at all.
RECURSIVE ChainFrom(_, _, _)
ChainFrom(link, n, fuel) ==
    IF n = NULL \/ fuel = 0 THEN <<>>
    ELSE <<n>> \o ChainFrom(link, link[n], fuel - 1)

WalkFuel == MaxNodes + 2

NextChain(s) == ChainFrom(s.next, s.head, WalkFuel)

PrevChain(s) == ChainFrom(s.prev, s.tail, WalkFuel)

ValuesOf(s, ns) == [i \in 1..Len(ns) |-> s.data[ns[i]]]

\* The stored values in list order, as toString() lists them.
Contents(s) == ValuesOf(s, NextChain(s))

Reverse(q) == [i \in 1..Len(q) |-> q[Len(q) + 1 - i]]

\* Every node linked into the list: reached from head by next or from tail
\* by prev.
Linked(s) ==
    {NextChain(s)[i] : i \in 1..Len(NextChain(s))}
        \cup {PrevChain(s)[i] : i \in 1..Len(PrevChain(s))}

\* An iterator is the address it holds; nullptr is the sentinel.
begin(s) == s.head

end(s) == NULL

rbegin(s) == s.tail

rend(s) == NULL

\* Two iterators are equal when both are the sentinel or both address the
\* same node.
IterEq(a, b) == a = b

\* Stepping a valid iterator forward / backward.
IterNext(s, it) == s.next[it]

IterPrev(s, it) == s.prev[it]

\* The nodes a loop `for (it = from; it != end(); ++it)` visits (cut after
\* fuel steps, as ChainFrom is).
RECURSIVE WalkForward(_, _, _)
WalkForward(s, it, fuel) ==
    IF it = end(s) \/ fuel = 0 THEN <<>>
    ELSE <<it>> \o WalkForward(s, IterNext(s, it), fuel - 1)

RECURSIVE WalkBackward(_, _, _)
WalkBackward(s, it, fuel) ==
    IF it = rend(s) \/ fuel = 0 THEN <<>>
    ELSE <<it>> \o WalkBackward(s, IterPrev(s, it), fuel - 1)

ForwardNodes(s) == WalkForward(s, begin(s), WalkFuel)

BackwardNodes(s) == WalkBackward(s, rbegin(s), WalkFuel)

\* What forward / backward traversal dereferences to.
Forward(s) == ValuesOf(s, ForwardNodes(s))

Backward(s) == ValuesOf(s, BackwardNodes(s))

\* ---------------------------------------------------------------- actions
OpRecord == [op : {"none", "push_front", "push_back", "pop_front", "pop_back",
                   "front", "back", "clear", "~LinkedList",
                   "begin", "rbegin", "end", "++", "--",
                   "addAfter", "addBefore", "removeNode"},
             arg : Values \cup {NoValue}, ret : Values \cup {NoValue},
             err : BOOLEAN, depth : 0..MaxNodes]

NoOp == [op |-> "none", arg |-> NoValue, ret |-> NoValue, err |-> FALSE, depth |-> 0]

NoHelper == [node |-> NULL, where |-> "none", pre |-> EmptyList]

Snapshot(s) == [contents |-> Contents(s), size |-> size(s)]

Init ==
    /\ head = EmptyList.head /\ tail = EmptyList.tail /\ count = EmptyList.count
    /\ next = EmptyList.next /\ prev = EmptyList.prev /\ data = EmptyList.data
    /\ alloc = EmptyList.alloc /\ ub = EmptyList.ub
    /\ alive = TRUE
    /\ lastOp = NoOp /\ prevOp = NoOp
    /\ snap1 = Snapshot(EmptyList) /\ snap2 = Snapshot(EmptyList)
    /\ pushes = 0 /\ pops = 0 /\ cleared = FALSE
    /\ onlyPB = TRUE /\ pushLog = <<>>
    /\ iter = NULL /\ itRemoved = FALSE
    /\ opAt = NoHelper
    /\ mirror = EmptyList /\ mirrorOp = NoOp

\* The list object and heap become s.
Becomes(s) ==
    /\ head' = s.head /\ tail' = s.tail /\ count' = s.count
    /\ next' = s.next /\ prev' = s.prev /\ data' = s.data
    /\ alloc' = s.alloc /\ ub' = s.ub

\* The call just made is remembered, with the contents it started from.
Remember(op, arg, r) ==
    /\ lastOp' = [op |-> op, arg |-> arg, ret |-> r.ret, err |-> r.err,
                  depth |-> r.depth]
    /\ prevOp' = lastOp
    /\ snap1' = Snapshot(Self)
    /\ snap2' = snap1

Usable == alive /\ ~ub

\* A push needs an address the allocator can hand out; the push counter is
\* capped while it is being kept.
CanPush == Usable /\ alloc # Nodes /\ (cleared \/ pushes < MaxPushes)

Returned(s) == [st |-> s, ret |-> NoValue, err |-> FALSE, depth |-> 0]

PushFront(v) ==
    /\ CanPush
    /\ \E n \in Nodes \ alloc :
          LET s == push_front(Self, v, n)
          IN  Becomes(s) /\ Remember("push_front", v, Returned(s))
    /\ pushes' = IF cleared THEN pushes ELSE pushes + 1
    /\ onlyPB' = FALSE /\ pushLog' = <<>>
    /\ UNCHANGED <<alive, pops, cleared>>
    /\ UNCHANGED auxVars

PushBack(v) ==
    /\ CanPush
    /\ \E n \in Nodes \ alloc :
          LET s == push_back(Self, v, n)
          IN  Becomes(s) /\ Remember("push_back", v, Returned(s))
    /\ pushes' = IF cleared THEN pushes ELSE pushes + 1
    /\ pushLog' = IF onlyPB THEN Append(pushLog, v) ELSE pushLog
    /\ UNCHANGED <<alive, pops, cleared, onlyPB>>
    /\ UNCHANGED auxVars

Popped(op, r) ==
    /\ Becomes(r.st) /\ Remember(op, NoValue, r)
    /\ pops' = IF r.err \/ cleared THEN pops ELSE pops + 1
    /\ onlyPB' = (onlyPB /\ r.err)
    /\ pushLog' = IF r.err THEN pushLog ELSE <<>>
    /\ UNCHANGED <<alive, pushes, cleared>>
    /\ UNCHANGED auxVars

PopFront == Usable /\ Popped("pop_front", pop_front(Self))

PopBack == Usable /\ Popped("pop_back", pop_back(Self))

Peeked(op, r) ==
    /\ Becomes(r.st) /\ Remember(op, NoValue, r)
    /\ UNCHANGED <<alive, pushes, pops, cleared, onlyPB, pushLog>>
    /\ UNCHANGED auxVars

Front == Usable /\ Peeked("front", front(Self))

Back == Usable /\ Peeked("back", back(Self))

Clear ==
    /\ Usable
    /\ LET r == clear(Self) IN Becomes(r.st) /\ Remember("clear", NoValue, r)
    /\ cleared' = TRUE /\ pushes' = 0 /\ pops' = 0
    /\ onlyPB' = TRUE /\ pushLog' = <<>>
    /\ UNCHANGED alive
    /\ UNCHANGED auxVars

Destroy ==
    /\ Usable
    /\ LET r == Destructor(Self)
       IN  Becomes(r.st) /\ Remember("~LinkedList", NoValue, r)
    /\ alive' = FALSE
    /\ cleared' = TRUE /\ pushes' = 0 /\ pops' = 0
    /\ onlyPB' = TRUE /\ pushLog' = <<>>
    /\ UNCHANGED auxVars

Next ==
    \/ \E v \in Values : PushFront(v)
    \/ \E v \in Values : PushBack(v)
    \/ PopFront
    \/ PopBack
    \/ Front
    \/ Back
    \/ Clear
    \/ Destroy

Spec == Init /\ [][Next]_vars

\* ------------------------------------------- the list with an iterator
\* A call on the list of which only the call itself is remembered.
Called(op, arg, r) ==
    /\ Becomes(r.st)
    /\ lastOp' = [op |-> op, arg |-> arg, ret |-> r.ret, err |-> r.err,
                  depth |-> r.depth]
    /\ UNCHANGED <<alive, prevOp, snap1, snap2,
                   pushes, pops, cleared, onlyPB, pushLog>>

HasRoom == Usable /\ alloc # Nodes

ItPushFront(v) ==
    /\ HasRoom
    /\ \E n \in Nodes \ alloc :
          Called("push_front", v, Returned(push_front(Self, v, n)))
    /\ UNCHANGED <<iter, itRemoved, opAt, mirror, mirrorOp>>

ItPushBack(v) ==
    /\ HasRoom
    /\ \E n \in Nodes \ alloc :
          Called("push_back", v, Returned(push_back(Self, v, n)))
    /\ UNCHANGED <<iter, itRemoved, opAt, mirror, mirrorOp>>

\* The iterator's node goes when a pop that returns takes the end it is at.
ItPopFront ==
    /\ Usable
    /\ LET r == pop_front(Self)
       IN  /\ Called("pop_front", NoValue, r)
           /\ itRemoved' = (itRemoved \/ (~r.err /\ iter # NULL /\ iter = head))
    /\ UNCHANGED <<iter, opAt, mirror, mirrorOp>>

ItPopBack ==
    /\ Usable
    /\ LET r == pop_back(Self)
       IN  /\ Called("pop_back", NoValue, r)
           /\ itRemoved' = (itRemoved \/ (~r.err /\ iter # NULL /\ iter = tail))
    /\ UNCHANGED <<iter, opAt, mirror, mirrorOp>>

ItClear ==
    /\ Usable
    /\ Called("clear", NoValue, clear(Self))
    /\ itRemoved' = (itRemoved \/ iter # NULL)
    /\ UNCHANGED <<iter, opAt, mirror, mirrorOp>>

\* An iterator obtained from the list: it = begin(), rbegin() or end().
Obtained(op, to) ==
    /\ Usable
    /\ iter' = to /\ itRemoved' = FALSE
    /\ Called(op, NoValue, Returned(Self))
    /\ UNCHANGED <<opAt, mirror, mirrorOp>>

ItBegin == Obtained("begin", begin(Self))

ItRBegin == Obtained("rbegin", rbegin(Self))

ItEnd == Obtained("end", end(Self))

\* ++it / --it on an iterator that is not the sentinel.  Stepping an
\* iterator whose node has been removed reads a deleted Node: undefined
\* behaviour, after which the iterator may hold any address.
Stepped(op, to) ==
    /\ Usable /\ iter # NULL
    /\ IF itRemoved
       THEN /\ iter' \in Nodes \cup {NULL}
            /\ Called(op, NoValue, Returned([Self EXCEPT !.ub = TRUE]))
            /\ UNCHANGED itRemoved
       ELSE /\ iter' = to /\ itRemoved' = FALSE
            /\ Called(op, NoValue, Returned(Self))
    /\ UNCHANGED <<opAt, mirror, mirrorOp>>

ItInc == Stepped("++", IterNext(Self, iter))

ItDec == Stepped("--", IterPrev(Self, iter))

NextIter ==
    \/ \E v \in Values : ItPushFront(v)
    \/ \E v \in Values : ItPushBack(v)
    \/ ItPopFront
    \/ ItPopBack
    \/ ItClear
    \/ ItBegin
    \/ ItRBegin
    \/ ItEnd
    \/ ItInc
    \/ ItDec

SpecIter == Init /\ [][NextIter]_vars

\* ------------------------------------- the protected helpers, called
\* as a derived class may call them: with any node linked into the list
\* (or with nullptr on an empty list).  The heap has room for one node more
\* than the public calls use, so that a node between two others can be
\* given a new neighbour.
HelperNodes == 1..(MaxNodes + 1)

\* The helpers never look at a value; two different ones tell the nodes of
\* a list apart.
HelperValues == {1, MaxVal}

\* LinkedList() in that heap.
EmptyHelperList ==
    [head |-> NULL, tail |-> NULL, count |-> 0,
     next |-> [n \in HelperNodes |-> NULL],
     prev |-> [n \in HelperNodes |-> NULL],
     data |-> [n \in HelperNodes |-> NoValue], alloc |-> {}, ub |-> FALSE]

InitHelpers ==
    /\ head = EmptyHelperList.head /\ tail = EmptyHelperList.tail
    /\ count = EmptyHelperList.count
    /\ next = EmptyHelperList.next /\ prev = EmptyHelperList.prev
    /\ data = EmptyHelperList.data
    /\ alloc = EmptyHelperList.alloc /\ ub = EmptyHelperList.ub
    /\ alive = TRUE
    /\ lastOp = NoOp /\ prevOp = NoOp
    /\ snap1 = Snapshot(EmptyList) /\ snap2 = Snapshot(EmptyList)
    /\ pushes = 0 /\ pops = 0 /\ cleared = FALSE
    /\ onlyPB = TRUE /\ pushLog = <<>>
    /\ iter = NULL /\ itRemoved = FALSE
    /\ opAt = NoHelper
    /\ mirror = EmptyList /\ mirrorOp = NoOp

\* Where in the list node is.
Where(s, node) ==
    CASE node = NULL -> "empty"
      [] node = s.head /\ node = s.tail -> "sole"
      [] node = s.head -> "head"
      [] node = s.tail -> "tail"
      [] OTHER -> "interior"

\* The nodes a helper may be handed: any linked node, nullptr if none is.
Targets(s) == IF s.head = NULL THEN {NULL} ELSE Linked(s)

HelperCalled(op, node, arg, r) ==
    /\ Called(op, arg, r)
    /\ opAt' = [node |-> node, where |-> Where(Self, node), pre |-> Self]
    /\ UNCHANGED <<iter, itRemoved, mirror, mirrorOp>>

HAddAfter(v) ==
    /\ Usable /\ alloc # HelperNodes
    /\ \E node \in Targets(Self) : \E n \in HelperNodes \ alloc :
          HelperCalled("addAfter", node, v, Returned(addAfter(Self, node, v, n)))

HAddBefore(v) ==
    /\ Usable /\ alloc # HelperNodes
    /\ \E node \in Targets(Self) : \E n \in HelperNodes \ alloc :
          HelperCalled("addBefore", node, v, Returned(addBefore(Self, node, v, n)))

HRemoveNode ==
    /\ Usable
    /\ \E node \in Targets(Self) :
          HelperCalled("removeNode", node, NoValue, removeNode(Self, node))

NextHelpers ==
    \/ \E v \in HelperValues : HAddAfter(v)
    \/ \E v \in HelperValues : HAddBefore(v)
    \/ HRemoveNode

SpecHelpers == InitHelpers /\ [][NextHelpers]_vars

\* --------------------------------------------- two lists, mirrored
\* Every call made on the list is made on the second list with front and
\* back exchanged.
MirrorCalled(op, arg, r) ==
    /\ mirror' = r.st
    /\ mirrorOp' = [op |-> op, arg |-> arg, ret |-> r.ret, err |-> r.err,
                    depth |-> r.depth]
    /\ UNCHANGED <<iter, itRemoved, opAt>>

MirrorUsable == Usable /\ ~mirror.ub

MirrorHasRoom == HasRoom /\ ~mirror.ub /\ mirror.alloc # Nodes

MPushFront(v) ==
    /\ MirrorHasRoom
    /\ \E n \in Nodes \ alloc :
          Called("push_front", v, Returned(push_front(Self, v, n)))
    /\ \E m \in Nodes \ mirror.alloc :
          MirrorCalled("push_back", v, Returned(push_back(mirror, v, m)))

MPushBack(v) ==
    /\ MirrorHasRoom
    /\ \E n \in Nodes \ alloc :
          Called("push_back", v, Returned(push_back(Self, v, n)))
    /\ \E m \in Nodes \ mirror.alloc :
          MirrorCalled("push_front", v, Returned(push_front(mirror, v, m)))

MPopFront ==
    /\ MirrorUsable
    /\ Called("pop_front", NoValue, pop_front(Self))
    /\ MirrorCalled("pop_back", NoValue, pop_back(mirror))

MPopBack ==
    /\ MirrorUsable
    /\ Called("pop_back", NoValue, pop_back(Self))
    /\ MirrorCalled("pop_front", NoValue, pop_front(mirror))

MClear ==
    /\ MirrorUsable
    /\ Called("clear", NoValue, clear(Self))
    /\ MirrorCalled("clear", NoValue, clear(mirror))

NextMirror ==
    \/ \E v \in Values : MPushFront(v)
    \/ \E v \in Values : MPushBack(v)
    \/ MPopFront
    \/ MPopBack
    \/ MClear

SpecMirror == Init /\ [][NextMirror]_vars

TypeOK ==
    /\ head \in Nodes \cup {NULL} /\ tail \in Nodes \cup {NULL}
    /\ count \in Int
    /\ next \in [Nodes -> Nodes \cup {NULL}]
    /\ prev \in [Nodes -> Nodes \cup {NULL}]
    /\ data \in [Nodes -> Values \cup {NoValue}]
    /\ alloc \subseteq Nodes
    /\ ub \in BOOLEAN /\ alive \in BOOLEAN
    /\ lastOp \in OpRecord /\ prevOp \in OpRecord
    /\ pushes \in 0..MaxPushes /\ pops \in 0..MaxPushes
    /\ cleared \in BOOLEAN /\ onlyPB \in BOOLEAN
    /\ iter \in Nodes \cup {NULL} /\ itRemoved \in BOOLEAN
    /\ mirrorOp \in OpRecord

\* ------------------------------------------------------------- properties
Pops == {"pop_front", "pop_back"}

Destroyers == {"clear", "~LinkedList"}

IsDistinct(q) == \A i, j \in 1..Len(q) : q[i] = q[j] => i = j

\* C1: as long as clear() has not been called, size() is the number of
\* pushes performed minus the number of pops that returned a value, and that
\* difference is never negative.
SizeIsPushesMinusPops ==
    ~cleared => size(Self) = pushes - pops /\ pushes - pops >= 0

SizeIsPushesMinusPops_Witness ==
    /\ ~cleared /\ pushes = MaxPushes /\ pops >= 2 /\ count >= 1
    /\ prevOp.op \in Pops /\ prevOp.err

\* C2: a front(), back(), pop_front() or pop_back() call made on an empty
\* list throws and changes nothing of the list or the heap, so the list is
\* still empty afterwards.
EmptyCallsThrowAndKeepState ==
    [][(empty(Self) /\ lastOp'.op \in Pops \cup {"front", "back"})
          => /\ lastOp'.err
             /\ head' = head /\ tail' = tail /\ count' = count
             /\ next' = next /\ prev' = prev /\ data' = data
             /\ alloc' = alloc /\ ub' = ub
             /\ empty(Self)' /\ size(Self)' = 0]_vars

EmptyCallsThrowAndKeepState_Witness ==
    /\ lastOp.op = "pop_back" /\ lastOp.err
    /\ prevOp.op = "pop_front" /\ ~prevOp.err
    /\ empty(Self)

\* C3: push_back(v) followed at once by pop_back() returns v and restores
\* the size and the stored values the list had before the push.
PushBackPopBack ==
    (prevOp.op = "push_back" /\ lastOp.op = "pop_back")
        => /\ ~lastOp.err
           /\ lastOp.ret = prevOp.arg
           /\ size(Self) = snap2.size
           /\ Contents(Self) = snap2.contents

PushBackPopBack_Witness ==
    /\ prevOp.op = "push_back" /\ lastOp.op = "pop_back"
    /\ snap2.size >= 2 /\ snap2.contents[1] # prevOp.arg

\* C4: push_front(v) followed at once by pop_front() returns v and restores
\* the size and the stored values the list had before the push.
PushFrontPopFront ==
    (prevOp.op = "push_front" /\ lastOp.op = "pop_front")
        => /\ ~lastOp.err
           /\ lastOp.ret = prevOp.arg
           /\ size(Self) = snap2.size
           /\ Contents(Self) = snap2.contents

PushFrontPopFront_Witness ==
    /\ prevOp.op = "push_front" /\ lastOp.op = "pop_front"
    /\ snap2.size >= 2 /\ snap2.contents[snap2.size] # prevOp.arg

\* C5: after clear() the list is in the state of a newly constructed one
\* (size 0, empty, head and tail null, no node left), and a push_back(v)
\* that follows gives a one-element list whose head and tail are one node
\* holding v.
ClearGivesNewList ==
    /\ lastOp.op = "clear"
          => /\ size(Self) = 0 /\ empty(Self)
             /\ head = NULL /\ tail = NULL
             /\ Self = EmptyList
    /\ (prevOp.op = "clear" /\ lastOp.op = "push_back")
          => /\ size(Self) = 1 /\ ~empty(Self)
             /\ head = tail /\ head \in alloc
             /\ data[head] = lastOp.arg
             /\ next[head] = NULL /\ prev[head] = NULL
             /\ Contents(Self) = <<lastOp.arg>>

ClearGivesNewList_Witness ==
    /\ prevOp.op = "clear" /\ snap2.size >= 2
    /\ lastOp.op = "push_back"

\* C6: forward traversal visits exactly size() elements, backward traversal
\* visits the same nodes and values in the reverse order, and a list filled
\* by push_back alone is traversed forward in push order.
TraversalOrder ==
    /\ Len(Forward(Self)) = size(Self)
    /\ BackwardNodes(Self) = Reverse(ForwardNodes(Self))
    /\ Backward(Self) = Reverse(Forward(Self))
    /\ onlyPB => Forward(Self) = pushLog

TraversalOrder_Witness ==
    /\ onlyPB /\ Len(pushLog) >= 3 /\ pushLog[1] # pushLog[3]
    /\ Backward(Self) = <<pushLog[3], pushLog[2], pushLog[1]>>

\* C7: count is 0 exactly when head is null, exactly when tail is null; a
\* list of one node has head = tail; and empty() agrees with size() = 0.
HeadTailCountAgree ==
    /\ (count = 0) <=> (head = NULL)
    /\ (head = NULL) <=> (tail = NULL)
    /\ count = 1 => head = tail
    /\ empty(Self) <=> (size(Self) = 0)

HeadTailCountAgree_Witness ==
    /\ count = 0 /\ lastOp.op = "pop_front" /\ lastOp.err
    /\ prevOp.op = "pop_back" /\ ~prevOp.err

\* C8: every linked node is the prev of its successor and the next of its
\* predecessor.
LinkSymmetry ==
    \A n \in Linked(Self) :
        /\ next[n] # NULL => prev[next[n]] = n
        /\ prev[n] # NULL => next[prev[n]] = n

LinkSymmetry_Witness ==
    /\ count >= 3 /\ prevOp.op = "push_front" /\ lastOp.op = "push_back"
    /\ \E n \in Linked(Self) : next[n] # NULL /\ prev[n] # NULL

\* C9: the next chain from head holds exactly count distinct live nodes and
\* ends at tail, whose next is null; the prev chain from tail holds the same
\* nodes in reverse and ends at head, whose prev is null.
ChainMatchesCount ==
    LET f == NextChain(Self)
        b == PrevChain(Self)
    IN  /\ Len(f) = count
        /\ IsDistinct(f)
        /\ \A i \in 1..Len(f) : f[i] \in alloc
        /\ b = Reverse(f)
        /\ count > 0 => /\ f[1] = head /\ f[Len(f)] = tail
                        /\ next[tail] = NULL
                        /\ b[1] = tail /\ b[Len(b)] = head
                        /\ prev[head] = NULL

ChainMatchesCount_Witness ==
    /\ count >= 2 /\ lastOp.op = "pop_front" /\ prevOp.op = "push_back"
    /\ head # tail

\* C10: while clear() or the destructor releases the nodes, the number of
\* ~Node calls active at one time stays within a constant (one call at a
\* time for an iterative release), whatever the number of nodes.
ReleaseDepthConstant ==
    lastOp.op \in Destroyers => lastOp.depth <= 1

\* C11: the nodes whose storage is allocated are exactly the nodes linked
\* into the list; no release is undefined (none happens twice); a pop that
\* returns releases one node, the detached one; clear() and the destructor
\* release every node.
OwnsExactlyLinked ==
    /\ ~ub
    /\ alloc = Linked(Self)
    /\ (lastOp.op \in Pops /\ ~lastOp.err)
          => Cardinality(alloc) = snap1.size - 1
    /\ lastOp.op \in Destroyers => alloc = {}

OwnsExactlyLinked_Witness ==
    /\ lastOp.op = "pop_front" /\ ~lastOp.err
    /\ snap1.size >= 3 /\ Cardinality(alloc) = 2

\* C12: begin() equals end() exactly when the list is empty, and rbegin()
\* equals rend() exactly when the list is empty.
BeginIsEndIffEmpty ==
    /\ IterEq(begin(Self), end(Self)) <=> (size(Self) = 0)
    /\ IterEq(rbegin(Self), rend(Self)) <=> (size(Self) = 0)
    /\ IterEq(rbegin(Self), rend(Self)) <=> empty(Self)

BeginIsEndIffEmpty_Witness ==
    /\ lastOp.op \in Pops /\ ~lastOp.err /\ snap2.size >= 2
    /\ IterEq(begin(Self), end(Self)) /\ IterEq(rbegin(Self), rend(Self))

\* The abstract sequence after a call, from the sequence q before it.
AbsAfter(op, arg, q) ==
    CASE op = "push_front" -> <<arg>> \o q
      [] op = "push_back" -> Append(q, arg)
      [] op = "pop_front" -> IF q = <<>> THEN q ELSE Tail(q)
      [] op = "pop_back" -> IF q = <<>> THEN q ELSE SubSeq(q, 1, Len(q) - 1)
      [] op \in Destroyers -> <<>>
      [] OTHER -> q

\* What the call returns on the abstract sequence q.
AbsRet(op, q) ==
    CASE op = "pop_front" /\ q # <<>> -> q[1]
      [] op = "pop_back" /\ q # <<>> -> q[Len(q)]
      [] OTHER -> NoValue

\* C13: the values along next from head are the abstract sequence: every
\* call takes the sequence before it to the sequence push_front (prepend),
\* push_back (append), pop_front (drop and return the first), pop_back (drop
\* and return the last) and clear (empty) give, the rest kept in order.
RefinesSequence ==
    /\ Contents(Self) = AbsAfter(lastOp.op, lastOp.arg, snap1.contents)
    /\ lastOp.op \in Pops
          => /\ lastOp.ret = AbsRet(lastOp.op, snap1.contents)
             /\ lastOp.err <=> (snap1.contents = <<>>)
    /\ snap1.contents = AbsAfter(prevOp.op, prevOp.arg, snap2.contents)

RefinesSequence_Witness ==
    /\ prevOp.op = "push_front" /\ lastOp.op = "pop_back"
    /\ snap1.contents = <<2, 1>> /\ lastOp.ret = 1
    /\ Contents(Self) = <<2>>

\* C14: on a non-empty list front() returns the head's value and back() the
\* tail's value and neither changes the list or any node; a pop_front() on
\* a list of two or more leaves what back() returns unchanged.
FrontBackReadOnly ==
    [][/\ (lastOp'.op = "front" /\ ~empty(Self))
             => ~lastOp'.err /\ lastOp'.ret = data[head] /\ Self' = Self
       /\ (lastOp'.op = "back" /\ ~empty(Self))
             => ~lastOp'.err /\ lastOp'.ret = data[tail] /\ Self' = Self
       /\ (lastOp'.op = "pop_front" /\ count >= 2)
             => back(Self').ret = back(Self).ret /\ ~back(Self').err]_vars

FrontBackReadOnly_Witness ==
    /\ lastOp.op = "back" /\ ~lastOp.err
    /\ prevOp.op = "pop_front" /\ snap2.size >= 3
    /\ snap2.contents[1] # snap2.contents[3]
    /\ lastOp.ret = snap2.contents[3]

Mutations == {"push_front", "push_back", "pop_front", "pop_back", "clear"}

\* The call being made removes the node the iterator addresses.
RemovesIterNode ==
    \/ lastOp'.op = "pop_front" /\ ~lastOp'.err /\ iter = head
    \/ lastOp'.op = "pop_back" /\ ~lastOp'.err /\ iter = tail
    \/ lastOp'.op = "clear"

\* C15: an iterator addressing a node of the list keeps addressing the same
\* allocated, linked node with the same value over every push and every pop
\* of another node; a pop of its node, or clear(), releases the node it
\* addresses; and an iterator found addressing a released node had its node
\* removed after it was obtained.
IteratorInvalidation ==
    [][/\ (iter # NULL /\ ~itRemoved /\ lastOp'.op \in Mutations)
             => IF RemovesIterNode
                THEN iter' = iter /\ iter \notin alloc' /\ itRemoved'
                ELSE /\ iter' = iter /\ ~itRemoved'
                     /\ iter \in alloc' /\ iter \in Linked(Self')
                     /\ data'[iter] = data[iter]
       /\ (iter' # NULL /\ iter' \notin alloc' /\ ~ub') => itRemoved'
       /\ (iter # NULL /\ ~itRemoved) => iter \in alloc /\ iter \in Linked(Self)]_vars

IteratorInvalidation_Witness ==
    /\ lastOp.op = "pop_front" /\ ~lastOp.err /\ count >= 1
    /\ iter # NULL /\ itRemoved /\ iter \notin alloc

\* The place of x in the sequence q.
Pos(q, x) == CHOOSE i \in 1..Len(q) : q[i] = x

Without(q, i) == SubSeq(q, 1, i - 1) \o SubSeq(q, i + 1, Len(q))

InsertAt(q, i, x) == SubSeq(q, 1, i - 1) \o <<x>> \o SubSeq(q, i, Len(q))

\* C16: removeNode(n) on a node n linked into a non-empty list (head, tail,
\* interior or sole) returns n's value, takes exactly n out of the next and
\* prev chains and out of the heap, lowers count by one, keeps the other
\* nodes and values in order, and leaves head/tail/count in agreement and
\* the links symmetric.
RemoveNodeAnywhere ==
    (lastOp.op = "removeNode" /\ opAt.where # "empty")
        => LET p == opAt.pre
               n == opAt.node
               f == NextChain(p)
               i == Pos(f, n)
           IN  /\ ~lastOp.err /\ lastOp.ret = p.data[n]
               /\ NextChain(Self) = Without(f, i)
               /\ PrevChain(Self) = Reverse(Without(f, i))
               /\ Contents(Self) = Without(Contents(p), i)
               /\ count = p.count - 1
               /\ alloc = p.alloc \ {n} /\ ~ub
               /\ HeadTailCountAgree /\ LinkSymmetry /\ ChainMatchesCount

RemoveNodeAnywhere_Witness ==
    /\ lastOp.op = "removeNode" /\ opAt.where = "interior"
    /\ count >= 2 /\ ~lastOp.err

\* C18: addAfter(n, v) / addBefore(n, v) on a node n linked into the list
\* puts a new node holding v right after / right before n, raises count by
\* one, moves tail only if n was the tail (addAfter) or head only if n was
\* the head (addBefore) and keeps the list invariants; with nullptr on an
\* empty list the new node becomes both head and tail.
AddAnywhere ==
    (lastOp.op \in {"addAfter", "addBefore"})
        => LET p == opAt.pre
               n == opAt.node
               v == lastOp.arg
               f == NextChain(p)
               after == lastOp.op = "addAfter"
               m == IF n = NULL THEN head
                    ELSE IF after THEN next[n] ELSE prev[n]
               at == IF n = NULL THEN 1
                     ELSE IF after THEN Pos(f, n) + 1 ELSE Pos(f, n)
           IN  /\ m # NULL /\ m \notin p.alloc /\ alloc = p.alloc \cup {m}
               /\ data[m] = v /\ ~ub
               /\ NextChain(Self) = InsertAt(f, at, m)
               /\ PrevChain(Self) = Reverse(InsertAt(f, at, m))
               /\ Contents(Self) = InsertAt(Contents(p), at, v)
               /\ count = p.count + 1
               /\ n = NULL => head = m /\ tail = m
               /\ (n # NULL /\ after)
                     => /\ head = p.head
                        /\ tail = IF n = p.tail THEN m ELSE p.tail
               /\ (n # NULL /\ ~after)
                     => /\ tail = p.tail
                        /\ head = IF n = p.head THEN m ELSE p.head
               /\ HeadTailCountAgree /\ LinkSymmetry /\ ChainMatchesCount

AddAnywhere_Witness ==
    /\ lastOp.op = "addAfter" /\ opAt.where = "interior"
    /\ count = MaxNodes + 1
    /\ next[opAt.node] # tail /\ data[next[opAt.node]] = lastOp.arg

\* The call with front and back exchanged.
Swapped(op) ==
    CASE op = "push_front" -> "push_back"
      [] op = "push_back" -> "push_front"
      [] op = "pop_front" -> "pop_back"
      [] op = "pop_back" -> "pop_front"
      [] OTHER -> op

\* C17: after every step of a run and of the same run with front and back
\* exchanged, the two lists have the same size, the two last calls returned
\* the same value or both threw, and the contents of one are the contents of
\* the other reversed.
FrontBackMirror ==
    /\ mirrorOp.op = Swapped(lastOp.op)
    /\ size(Self) = size(mirror)
    /\ lastOp.ret = mirrorOp.ret /\ lastOp.err = mirrorOp.err
    /\ Contents(Self) = Reverse(Contents(mirror))
    /\ ~ub /\ ~mirror.ub

FrontBackMirror_Witness ==
    /\ lastOp.op = "pop_front" /\ mirrorOp.op = "pop_back"
    /\ ~lastOp.err /\ lastOp.ret = mirrorOp.ret
    /\ count >= 2 /\ Contents(Self) # Contents(mirror)

====
